---- MODULE Spec2Model ----
(***************************************************************************)
(* CPacketDebug (PacketDebug.h): the packet debug session log and its      *)
(* heuristic field disassembler.                                           *)
(*                                                                         *)
(* Spec     the session: Initialize / Shutdown / LogSend / LogRecv called  *)
(*          in any order by the host, each Log running PrintContent.       *)
(* SpecDis  PrintContent alone, one loop iteration per step, on every      *)
(*          buffer of a bounded family.                                    *)
(***************************************************************************)
EXTENDS Integers, Sequences, FiniteSets, TLC

VARIABLES
    m_bInit,        \* bool m_bInit
    m_pFile,        \* FILE* m_pFile: "NULL" or "open"
    m_dwLastTime,   \* DWORD m_dwLastTime
    m_nSend,        \* DWORD m_nSend
    m_nRecv,        \* DWORD m_nRecv
    tick,           \* the value GetTickCount() last returned
    log,            \* what has been written to the log file, in order
    openFailed,     \* history: some Initialize() failed to open the file
    sessSend,       \* history: LogSend calls since the last successful Initialize
    sessRecv,       \* history: LogRecv calls since the last successful Initialize
    nCalls,         \* history: number of calls made by the host
    lastCall,       \* history: the last call made and the m_bInit it found
    data,           \* PrintContent: const BYTE* data (a sequence of bytes)
    size,           \* PrintContent: int size
    pos,            \* PrintContent: int pos
    start,          \* history: the value pos had when the loop was entered
    fieldCount,     \* PrintContent: int fieldCount
    fields,         \* the field lines PrintContent has written
    reads,          \* history: every index i for which data[i] was read
    marker,         \* "(empty)" / "(header only)" / "fields"
    more,           \* <<N>> once "... +N more bytes" is written, else <<>>
    pc              \* position in PrintContent

sessVars == <<m_bInit, m_pFile, m_dwLastTime, m_nSend, m_nRecv, tick, log>>
histVars == <<openFailed, sessSend, sessRecv, nCalls, lastCall>>
disVars  == <<data, size, pos, start, fieldCount, fields, reads, marker, more, pc>>
vars     == <<sessVars, histVars, disVars>>

-----------------------------------------------------------------------------
(* Program constants                                                       *)

PKT_DBG_MIN_STR_LEN == 3
PKT_DBG_MAX_FIELDS  == 16
MaxStrRun           == 64
sizes == <<13, 16, 17, 24, 25, 31, 32, 33, 48, 64, 65, 128, 256>>

TwoTo8  == 256
TwoTo15 == 32768
TwoTo16 == 65536

(* A 32-bit value is held as its two 16-bit halves: hi * 2^16 + lo. *)
W32(hi, lo) == [hi |-> hi, lo |-> lo]
GT32(x, y)  == x.hi > y.hi \/ (x.hi = y.hi /\ x.lo > y.lo)
GE32(x, y)  == x = y \/ GT32(x, y)

(* Bit patterns of the float literals of IsReasonableFloat. *)
F_1e10   == W32(20501, 761)      \* 1e10f      = 0x501502F9
F_0_0001 == W32(14545, 46871)    \* 0.0001f    = 0x38D1B717
F_100000 == W32(18371, 20480)    \* 100000.0f  = 0x47C35000
F_Inf    == W32(32640, 0)        \* 0x7F800000, exponent all ones

(* Bounds of the 32-bit integer candidates, as unsigned bit patterns. *)
L_Minus1e8 == W32(64010, 7936)   \* (DWORD)-100000000 = 0xFA0A1F00
D_Max      == W32(61440, 0)      \* 0xF0000000
D_AllOnes  == W32(65535, 65535)  \* 0xFFFFFFFF
D_Zero     == W32(0, 0)

-----------------------------------------------------------------------------
(* Bounds of the model                                                     *)

MaxBody  == 4      \* every body of at most this many bytes is tried
MaxPad   == 66     \* longest run of a long buffer (runs of MaxPad - 4 .. MaxPad)
MaxName  == 16     \* longest first run of a two-run (padded string) buffer
MaxFill  == 16     \* longest second run of a two-run buffer
MaxCalls == 5      \* calls the host makes in the session specification
MaxTick  == 1      \* largest GetTickCount() value

Alphabet == {0, 1, 65, 128, 248, 255}    \* byte values the buffers are made of
PadBytes == {0, 65}                      \* byte values that are repeated
HeaderId == <<2>>                        \* the header byte of every buffer

-----------------------------------------------------------------------------
(* Byte access.  Offsets are 0-based as in the code; data is a sequence.   *)
(* No read of the code is outside [0, size) (see ReadsInBounds), so the    *)
(* value of an outside read is never used.                                 *)

RD(d, i) == IF i >= 0 /\ i < Len(d) THEN d[i + 1] ELSE 0

ReadWORD(d, p)  == RD(d, p) + TwoTo8 * RD(d, p + 1)
ReadDWORD(d, p) == W32(ReadWORD(d, p + 2), ReadWORD(d, p))

ToShort(u) == IF u >= TwoTo15 THEN u - TwoTo16 ELSE u

(* (long)x for a 32-bit pattern x with the sign bit set: x - 2^32. *)
ToLong(x) == (x.hi - TwoTo16) * TwoTo16 + x.lo

IsPrintable(c) == c >= 32 /\ c < 127

(* IsReasonableFloat on the IEEE-754 bit pattern of val.  For two floats   *)
(* that are not NaN, |x| <= |y| iff the low 31 bits of x are <= those of y.*)
IsReasonableFloat(bits) ==
    LET a == W32(bits.hi % TwoTo15, bits.lo)          \* the bits of |val|
    IN  IF GT32(a, F_Inf) THEN FALSE                  \* val != val
        ELSE IF GT32(a, F_1e10) THEN FALSE            \* val > 1e10f || val < -1e10f
        ELSE IF a = D_Zero THEN FALSE                 \* val == 0.0f
        ELSE GE32(a, F_0_0001) /\ GE32(F_100000, a)   \* absVal in [0.0001f, 100000.0f]

IsReasonableDWORD(val) ==
    IF val = D_Zero \/ val = D_AllOnes THEN FALSE
    ELSE IF GT32(val, D_Max) THEN FALSE
    ELSE TRUE

-----------------------------------------------------------------------------
(* A field line: "[off] kind: value".  cand is the candidate that          *)
(* committed; width is the width the line reports (N of char[N], else the  *)
(* width of the type); len is the number of bytes pos advanced by; val is  *)
(* the number printed (a 32-bit pattern for DWORD and float, whose decimal *)
(* rendering is not modelled) and str the string.                          *)

Field(off, cand, kind, width, len, val, str) ==
    [off |-> off, cand |-> cand, kind |-> kind, width |-> width,
     len |-> len, val |-> val, str |-> str]

NoField == Field(0, "none", "none", 0, 0, 0, <<>>)

Try(ok, field, newpos, rd) == [ok |-> ok, field |-> field, pos |-> newpos, reads |-> rd]

Min(a, b) == IF a <= b THEN a ELSE b

(* The inner while of the variable string candidate, entered at offset p:  *)
(* the offset at which it stops.  It appends data[pos] and advances while  *)
(* pos < size, the byte is printable and not null, and s.length() < 64.    *)
RunEnd(d, sz, p) ==
    CHOOSE e \in p..Min(sz, p + MaxStrRun) :
        /\ e = Min(sz, p + MaxStrRun) \/ RD(d, e) = 0 \/ ~IsPrintable(RD(d, e))
        /\ \A j \in p..(e - 1) : RD(d, j) # 0 /\ IsPrintable(RD(d, j))

(* The string field written for the run [p, e), and the offset behind it:  *)
(* behind the terminating null when there is one.                          *)
StringField(d, sz, p, e) ==
    Try(TRUE,
        Field(p, "varstr", "char", (e - p) + 1,
              IF e < sz /\ RD(d, e) = 0 THEN (e - p) + 1 ELSE e - p,
              0, SubSeq(d, p + 1, e)),
        IF e < sz /\ RD(d, e) = 0 THEN e + 1 ELSE e,
        {i \in p..e : i < sz})

(* The test behind the inner while with the terminator test left out. *)
AfterRunAnyEnd(d, sz, p, e) ==
    IF e - p >= PKT_DBG_MIN_STR_LEN
    THEN StringField(d, sz, p, e)
    ELSE Try(FALSE, NoField, p, {i \in p..e : i < sz})

(* The test behind the inner while, which stopped at offset e: commit the  *)
(* string, or pos = strStart.                                              *)
AfterRun(d, sz, p, e) ==
    IF e - p >= PKT_DBG_MIN_STR_LEN /\ (e >= sz \/ RD(d, e) = 0)
    THEN StringField(d, sz, p, e)
    ELSE Try(FALSE, NoField, p, {i \in p..e : i < sz})

(* Candidate 1: null-terminated printable string. *)
TryVarString(d, sz, p) ==
    IF ~IsPrintable(RD(d, p)) THEN Try(FALSE, NoField, p, {p})
    ELSE AfterRun(d, sz, p, RunEnd(d, sz, p))

(* A byte that is neither printable nor null. *)
OtherByte(d, i) == ~IsPrintable(RD(d, i)) /\ RD(d, i) # 0

(* The inner for of DetectFixedString for one sz: the index of the last    *)
(* byte it examines, the first that is neither printable nor null if any.  *)
LastScanned(d, p, sz) ==
    CHOOSE i \in 0..(sz - 1) :
        /\ i = sz - 1 \/ OtherByte(d, p + i)
        /\ \A j \in 0..(i - 1) : ~OtherByte(d, p + j)

(* The counts of the inner for, which examined the bytes 0..last. *)
CountBytes(d, p, last) ==
    [valid     |-> ~OtherByte(d, p + last),
     printable |-> Cardinality({i \in 0..last : IsPrintable(RD(d, p + i))}),
     nulls     |-> Cardinality({i \in 0..last : RD(d, p + i) = 0}),
     last      |-> last]

(* The test behind the inner for, for its counts c. *)
SizeVerdict(p, sz, c) ==
    [ok    |-> c.valid /\ c.printable >= PKT_DBG_MIN_STR_LEN /\ c.nulls > 0
                   /\ c.printable + c.nulls = sz,
     reads |-> p..(p + c.last)]

(* One iteration of the loop over sizes in DetectFixedString, for sz. *)
CheckSize(d, p, sz) == SizeVerdict(p, sz, CountBytes(d, p, LastScanned(d, p, sz)))

(* DetectFixedString(data + p, maxLen), from the i-th entry of sizes on,   *)
(* rd being the indexes read so far; DetectStep has the verdict c of the   *)
(* i-th size.                                                              *)
RECURSIVE DetectFrom(_, _, _, _, _)
DetectStep(d, p, maxLen, i, rd, c) ==
    IF c.ok THEN [len |-> sizes[i], reads |-> rd \cup c.reads]
    ELSE DetectFrom(d, p, maxLen, i + 1, rd \cup c.reads)

DetectFrom(d, p, maxLen, i, rd) ==
    IF i > Len(sizes) THEN [len |-> 0, reads |-> rd]
    ELSE IF sizes[i] > maxLen THEN [len |-> 0, reads |-> rd]
    ELSE DetectStep(d, p, maxLen, i, rd, CheckSize(d, p, sizes[i]))

DetectFixedString(d, p, maxLen) == DetectFrom(d, p, maxLen, 1, {})

(* The string shown for a fixed string of n bytes at p: the bytes before   *)
(* the first null (for i < n && data[p + i] != 0).                         *)
FixedPrefix(d, p, n) ==
    SubSeq(d, p + 1,
           p + (CHOOSE i \in 0..n :
                   /\ i = n \/ RD(d, p + i) = 0
                   /\ \A j \in 0..(i - 1) : RD(d, p + j) # 0))

(* The fixed string candidate for the result r of DetectFixedString. *)
AfterDetect(d, p, r) ==
    IF r.len > 0
    THEN Try(TRUE,
             Field(p, "fixstr", "char", r.len, r.len, 0, FixedPrefix(d, p, r.len)),
             p + r.len, r.reads)
    ELSE Try(FALSE, NoField, p, r.reads)

(* Candidate 2: fixed-size char array padded with nulls. *)
TryFixedString(d, sz, p) == AfterDetect(d, p, DetectFixedString(d, p, sz - p))

(* TryFloat with the guard pos + 3 <= size. *)
TryFloatShortGuard(d, sz, p) ==
    IF p + 3 <= sz
    THEN IF IsReasonableFloat(ReadDWORD(d, p))
         THEN Try(TRUE, Field(p, "float", "float", 4, 4, ReadDWORD(d, p), <<>>),
                  p + 4, p..(p + 3))
         ELSE Try(FALSE, NoField, p, p..(p + 3))
    ELSE Try(FALSE, NoField, p, {})

(* Candidate 3: float. *)
TryFloat(d, sz, p) ==
    IF p + 4 <= sz
    THEN IF IsReasonableFloat(ReadDWORD(d, p))
         THEN Try(TRUE, Field(p, "float", "float", 4, 4, ReadDWORD(d, p), <<>>),
                  p + 4, p..(p + 3))
         ELSE Try(FALSE, NoField, p, p..(p + 3))
    ELSE Try(FALSE, NoField, p, {})

(* The 32-bit candidate for the value uval read at p. *)
Classify32(p, uval) ==
    IF uval.hi >= TwoTo15 /\ GT32(uval, L_Minus1e8)       \* sval < 0 && sval > -100000000
    THEN Try(TRUE, Field(p, "int32", "long", 4, 4, ToLong(uval), <<>>),
             p + 4, p..(p + 3))
    ELSE IF IsReasonableDWORD(uval)
    THEN Try(TRUE, Field(p, "int32", "DWORD", 4, 4, uval, <<>>),
             p + 4, p..(p + 3))
    ELSE Try(FALSE, NoField, p, p..(p + 3))

(* Candidate 4: long / DWORD. *)
TryInt32(d, sz, p) ==
    IF p + 4 <= sz THEN Classify32(p, ReadDWORD(d, p))
    ELSE Try(FALSE, NoField, p, {})

(* Classify16 with the WORD range cut at 0x8000. *)
Classify16LowWord(p, uval) ==
    IF ToShort(uval) < 0 /\ ToShort(uval) > -32000
    THEN Try(TRUE, Field(p, "int16", "short", 2, 2, ToShort(uval), <<>>),
             p + 2, p..(p + 1))
    ELSE IF uval > 0 /\ uval < TwoTo15
    THEN Try(TRUE, Field(p, "int16", "WORD", 2, 2, uval, <<>>),
             p + 2, p..(p + 1))
    ELSE Try(FALSE, NoField, p, p..(p + 1))

(* The 16-bit candidate for the value uval read at p. *)
Classify16(p, uval) ==
    IF ToShort(uval) < 0 /\ ToShort(uval) > -32000
    THEN Try(TRUE, Field(p, "int16", "short", 2, 2, ToShort(uval), <<>>),
             p + 2, p..(p + 1))
    ELSE IF uval > 0 /\ uval < 65520                      \* 0xFFF0
    THEN Try(TRUE, Field(p, "int16", "WORD", 2, 2, uval, <<>>),
             p + 2, p..(p + 1))
    ELSE Try(FALSE, NoField, p, p..(p + 1))

(* Candidate 5: short / WORD. *)
TryInt16(d, sz, p) ==
    IF p + 2 <= sz THEN Classify16(p, ReadWORD(d, p))
    ELSE Try(FALSE, NoField, p, {})

(* The line of the single-byte fallback for the value val. *)
ByteField(p, val) ==
    Field(p, "byte", IF val = 0 \/ val = 1 THEN "BYTE/bool" ELSE "BYTE",
          1, 1, val, <<>>)

(* Candidate 6: single BYTE/BOOL, always commits. *)
TryByte(d, sz, p) == Try(TRUE, ByteField(p, RD(d, p)), p + 1, {p})

(* Candidate a, and candidate b when a rejects; the reads are those of     *)
(* every candidate tried.                                                  *)
OrElse(a, b) ==
    IF a.ok THEN a ELSE Try(b.ok, b.field, b.pos, a.reads \cup b.reads)

(* One iteration of the while loop of PrintContent at offset p: the first  *)
(* candidate that commits, in the order of the code.                       *)
ScanStep(d, sz, p) ==
    OrElse(TryVarString(d, sz, p),
    OrElse(TryFixedString(d, sz, p),
    OrElse(TryFloat(d, sz, p),
    OrElse(TryInt32(d, sz, p),
    OrElse(TryInt16(d, sz, p),
           TryByte(d, sz, p))))))

(* The dynamic packet probe: header + WORD size. *)
IsDynamic(d, sz) == sz >= 3 /\ ReadWORD(d, 1) = sz
DynamicReads(sz) == IF sz >= 3 THEN {1, 2} ELSE {}
StartPos(d, sz)  == IF IsDynamic(d, sz) THEN 3 ELSE 1

(* LoopCond with fieldCount <= PKT_DBG_MAX_FIELDS. *)
LoopCondOneMore(sz, p, fc) == p < sz /\ fc <= PKT_DBG_MAX_FIELDS

LoopCond(sz, p, fc) == p < sz /\ fc < PKT_DBG_MAX_FIELDS

(* The while loop of PrintContent run to its end from offset p, fs being   *)
(* the fields written so far; ScanNext has the iteration s at p.           *)
RECURSIVE ScanLoop(_, _, _, _)
ScanNext(d, sz, fs, s) == ScanLoop(d, sz, s.pos, Append(fs, s.field))

ScanLoop(d, sz, p, fs) ==
    IF LoopCond(sz, p, Len(fs))
    THEN ScanNext(d, sz, fs, ScanStep(d, sz, p))
    ELSE [pos |-> p, fields |-> fs]

Remainder(sz, p) == IF p < sz THEN <<sz - p>> ELSE <<>>

(* What PrintContent has written when its loop ended in r. *)
ContentLines(sz, r) ==
    [marker |-> "fields", fields |-> r.fields, more |-> Remainder(sz, r.pos)]

(* PrintContent(data, size) with pos set to p before the loop. *)
ContentFrom(d, sz, p) ==
    IF p >= sz
    THEN [marker |-> "(header only)", fields |-> <<>>, more |-> <<>>]
    ELSE ContentLines(sz, ScanLoop(d, sz, p, <<>>))

(* PrintContent(data, size): what it writes after the record header. *)
PrintContent(d, sz) ==
    IF sz <= 1 THEN [marker |-> "(empty)", fields |-> <<>>, more |-> <<>>]
    ELSE ContentFrom(d, sz, StartPos(d, sz))

-----------------------------------------------------------------------------
(* The buffers the transport layer hands over.                             *)

RECURSIVE SeqsOf(_, _)
SeqsOf(S, n) ==
    IF n = 0 THEN {<<>>}
    ELSE LET shorter == SeqsOf(S, n - 1)
         IN  shorter \cup {Append(s, b) : s \in {t \in shorter : Len(t) = n - 1}, b \in S}

Repeat(b, n) == [i \in 1..n |-> b]

Edges == {<<>>} \cup {<<b>> : b \in Alphabet}

(* A body behind the header byte, or behind header byte + WORD size. *)
Plain(body)   == HeaderId \o body
Dynamic(body) == LET n == Len(body) + 3
                 IN  HeaderId \o <<n % TwoTo8, n \div TwoTo8>> \o body

ShortBodies == SeqsOf(Alphabet, MaxBody)
LongBodies  == {Repeat(b, n) \o suf :
                  b \in PadBytes, n \in (MaxPad - 4)..MaxPad, suf \in Edges}
PadPairs    == {bc \in PadBytes \X PadBytes : bc[1] # bc[2]}
TwoRuns     == {pre \o Repeat(bc[1], n) \o Repeat(bc[2], m) :
                  pre \in Edges, bc \in PadPairs,
                  n \in 1..MaxName, m \in 1..MaxFill}
Buffers     == {Plain(b) : b \in ShortBodies \cup LongBodies \cup TwoRuns}
               \cup {Dynamic(b) : b \in ShortBodies \cup LongBodies}

-----------------------------------------------------------------------------
(* SpecDis: PrintContent(data, size) as Log calls it, one step at a time.  *)
(* Log has read the header byte p[0] before the call.                      *)

InitDis ==
    /\ data \in Buffers
    /\ size = Len(data)
    /\ pos = 0 /\ start = 0 /\ fieldCount = 0
    /\ fields = <<>>
    /\ reads = {0}
    /\ marker = "" /\ more = <<>>
    /\ pc = "entry"
    /\ m_bInit = TRUE /\ m_pFile = "open"
    /\ m_dwLastTime = 0 /\ m_nSend = 1 /\ m_nRecv = 0 /\ tick = 0
    /\ log = <<>>
    /\ openFailed = FALSE /\ sessSend = 1 /\ sessRecv = 0 /\ nCalls = 2
    /\ lastCall = [op |-> "LogSend", wasInit |-> TRUE, opens |-> FALSE,
                   null |-> FALSE, size |-> size]

(* if (size <= 1) { " (empty)"; return; } *)
ContentEmpty ==
    /\ pc = "entry" /\ size <= 1
    /\ marker' = "(empty)" /\ pc' = "done"
    /\ UNCHANGED <<sessVars, histVars, data, size, pos, start, fieldCount,
                   fields, reads, more>>

(* pos = 1 or 3; if (pos >= size) { " (header only)"; return; } *)
ContentHeaderOnly ==
    /\ pc = "entry" /\ size > 1 /\ StartPos(data, size) >= size
    /\ pos' = StartPos(data, size)
    /\ start' = pos'
    /\ reads' = reads \cup DynamicReads(size)
    /\ marker' = "(header only)" /\ pc' = "done"
    /\ UNCHANGED <<sessVars, histVars, data, size, fieldCount, fields, more>>

(* pos = 1 or 3; "\n"; fieldCount = 0; the loop is entered. *)
ContentEnter ==
    /\ pc = "entry" /\ size > 1 /\ StartPos(data, size) < size
    /\ pos' = StartPos(data, size)
    /\ start' = pos'
    /\ reads' = reads \cup DynamicReads(size)
    /\ fieldCount' = 0
    /\ marker' = "fields" /\ pc' = "loop"
    /\ UNCHANGED <<sessVars, histVars, data, size, fields, more>>

(* One iteration of while (pos < size && fieldCount < PKT_DBG_MAX_FIELDS). *)
ContentField ==
    /\ pc = "loop" /\ LoopCond(size, pos, fieldCount)
    /\ \E s \in {ScanStep(data, size, pos)} :
           /\ fields' = Append(fields, s.field)
           /\ pos' = s.pos
           /\ reads' = reads \cup s.reads
    /\ fieldCount' = fieldCount + 1
    /\ UNCHANGED <<sessVars, histVars, data, size, start, marker, more, pc>>

(* The loop is left; if (pos < size) "... +%d more bytes". *)
ContentFinish ==
    /\ pc = "loop" /\ ~LoopCond(size, pos, fieldCount)
    /\ more' = Remainder(size, pos)
    /\ pc' = "done"
    /\ UNCHANGED <<sessVars, histVars, data, size, pos, start, fieldCount,
                   fields, reads, marker>>

NextDis ==
    \/ ContentEmpty
    \/ ContentHeaderOnly
    \/ ContentEnter
    \/ ContentField
    \/ ContentFinish

SpecDis == InitDis /\ [][NextDis]_vars

-----------------------------------------------------------------------------
(* Spec: the session.  The host calls the four public operations in any    *)
(* order; every call runs to completion before the next.                   *)

HeaderEntry == [k |-> "header"]
FooterEntry(ns, nr) == [k |-> "footer", send |-> ns, recv |-> nr]
PacketEntry(dir, seq, dt, header, sz, content) ==
    [k |-> "packet", dir |-> dir, seq |-> seq, dt |-> dt, header |-> header,
     size |-> sz, content |-> content]

(* The arguments of LogSend / LogRecv: a null pointer, or a buffer with    *)
(* size its length or a size below 1.                                      *)
SessionBufs == {<<2>>, <<2, 65, 65, 65, 0>>}
CallArgs ==
    {[null |-> TRUE, bytes |-> <<>>, size |-> 4]}
    \cup {[null |-> FALSE, bytes |-> b, size |-> Len(b)] : b \in SessionBufs}
    \cup {[null |-> FALSE, bytes |-> <<2>>, size |-> n] : n \in {-1, 0}}

Call(op, opens, a) ==
    [op |-> op, wasInit |-> m_bInit, opens |-> opens, null |-> a.null, size |-> a.size]
NoArgs == [null |-> FALSE, bytes |-> <<>>, size |-> 0]

Init ==
    /\ m_bInit = FALSE /\ m_pFile = "NULL"
    /\ m_dwLastTime = 0 /\ m_nSend = 0 /\ m_nRecv = 0
    /\ tick = 0
    /\ log = <<>>
    /\ openFailed = FALSE /\ sessSend = 0 /\ sessRecv = 0 /\ nCalls = 0
    /\ lastCall = [op |-> "none", wasInit |-> FALSE, opens |-> FALSE,
                   null |-> FALSE, size |-> 0]
    /\ data = <<>> /\ size = 0 /\ pos = 0 /\ start = 0 /\ fieldCount = 0
    /\ fields = <<>> /\ reads = {} /\ marker = "" /\ more = <<>>
    /\ pc = "idle"

(* Initialize(); ok is whether _fsopen returns a file. *)
Initialize(ok) ==
    /\ nCalls < MaxCalls
    /\ nCalls' = nCalls + 1
    /\ IF m_bInit
       THEN /\ lastCall' = Call("Initialize", FALSE, NoArgs)
            /\ UNCHANGED <<sessVars, openFailed, sessSend, sessRecv>>
       ELSE /\ lastCall' = Call("Initialize", TRUE, NoArgs)
            /\ IF ~ok
               THEN /\ m_pFile' = "NULL"
                    /\ openFailed' = TRUE
                    /\ UNCHANGED <<m_bInit, m_dwLastTime, m_nSend, m_nRecv, tick,
                                   log, sessSend, sessRecv>>
               ELSE /\ m_pFile' = "open"
                    /\ \E now \in tick..MaxTick :
                          tick' = now /\ m_dwLastTime' = now
                    /\ m_bInit' = TRUE
                    /\ log' = Append(log, HeaderEntry)
                    /\ sessSend' = 0 /\ sessRecv' = 0
                    /\ UNCHANGED <<m_nSend, m_nRecv, openFailed>>
    /\ UNCHANGED disVars

(* Shutdown without the test of m_bInit. *)
ShutdownUnguarded ==
    /\ nCalls < MaxCalls
    /\ nCalls' = nCalls + 1
    /\ lastCall' = Call("Shutdown", FALSE, NoArgs)
    /\ log' = Append(log, FooterEntry(m_nSend, m_nRecv))
    /\ m_pFile' = "NULL"
    /\ m_bInit' = FALSE
    /\ UNCHANGED <<m_dwLastTime, m_nSend, m_nRecv, tick>>
    /\ UNCHANGED <<openFailed, sessSend, sessRecv, disVars>>

(* Shutdown() *)
Shutdown ==
    /\ nCalls < MaxCalls
    /\ nCalls' = nCalls + 1
    /\ lastCall' = Call("Shutdown", FALSE, NoArgs)
    /\ IF ~m_bInit
       THEN UNCHANGED sessVars
       ELSE /\ log' = Append(log, FooterEntry(m_nSend, m_nRecv))
            /\ m_pFile' = "NULL"
            /\ m_bInit' = FALSE
            /\ UNCHANGED <<m_dwLastTime, m_nSend, m_nRecv, tick>>
    /\ UNCHANGED <<openFailed, sessSend, sessRecv, disVars>>

(* Log(dir, data, size), called with the counters ns and nr already        *)
(* incremented by the caller.                                              *)
Log(dir, a, ns, nr) ==
    IF a.null \/ a.size < 1 \/ m_pFile = "NULL"
    THEN UNCHANGED <<m_dwLastTime, tick, log>>
    ELSE \E now \in tick..MaxTick :
            /\ tick' = now
            /\ m_dwLastTime' = now
            /\ log' = Append(log, PacketEntry(dir, ns + nr, now - m_dwLastTime,
                                              RD(a.bytes, 0), a.size,
                                              PrintContent(a.bytes, a.size)))

(* LogSend(data, size).  m_nSend is a DWORD; MaxCalls keeps it below 2^32. *)
LogSend(a) ==
    /\ nCalls < MaxCalls
    /\ nCalls' = nCalls + 1
    /\ lastCall' = Call("LogSend", FALSE, a)
    /\ IF m_bInit
       THEN /\ m_nSend' = m_nSend + 1
            /\ Log("SEND", a, m_nSend + 1, m_nRecv)
            /\ sessSend' = sessSend + 1
            /\ UNCHANGED <<m_bInit, m_pFile, m_nRecv>>
       ELSE UNCHANGED <<sessVars, sessSend>>
    /\ UNCHANGED <<openFailed, sessRecv, disVars>>

(* LogRecv(data, size) *)
LogRecv(a) ==
    /\ nCalls < MaxCalls
    /\ nCalls' = nCalls + 1
    /\ lastCall' = Call("LogRecv", FALSE, a)
    /\ IF m_bInit
       THEN /\ m_nRecv' = m_nRecv + 1
            /\ Log("RECV", a, m_nSend, m_nRecv + 1)
            /\ sessRecv' = sessRecv + 1
            /\ UNCHANGED <<m_bInit, m_pFile, m_nSend>>
       ELSE UNCHANGED <<sessVars, sessRecv>>
    /\ UNCHANGED <<openFailed, sessSend, disVars>>

Next ==
    \/ \E ok \in BOOLEAN : Initialize(ok)
    \/ Shutdown
    \/ \E a \in CallArgs : LogSend(a)
    \/ \E a \in CallArgs : LogRecv(a)

Spec == Init /\ [][Next]_vars

-----------------------------------------------------------------------------
(* Properties of the session (Spec)                                        *)

progVars == <<m_bInit, m_pFile, m_dwLastTime, m_nSend, m_nRecv, log>>

LastEntry == log[Len(log)]
Footers   == {i \in 1..Len(log) : log[i].k = "footer"}

(* C1: the footer a Shutdown() writes reports the numbers of LogSend and   *)
(* LogRecv calls made since the Initialize() that opened the session.      *)
FooterReportsSessionCalls ==
    (lastCall.op = "Shutdown" /\ lastCall.wasInit)
        => LastEntry = FooterEntry(sessSend, sessRecv)

(* C2: an Initialize() while initialized and a Shutdown() while not        *)
(* initialized write nothing and change no state.                          *)
IdempotentInitShutdown ==
    [][ ( /\ nCalls' = nCalls + 1
          /\ \/ lastCall'.op = "Initialize" /\ m_bInit
             \/ lastCall'.op = "Shutdown" /\ ~m_bInit )
        => UNCHANGED <<progVars, tick>> ]_vars

(* A second Shutdown() has been made right after the one that wrote the    *)
(* footer, and there is still one footer.                                  *)
SecondShutdownMade ==
    /\ lastCall.op = "Shutdown" /\ ~lastCall.wasInit
    /\ Len(log) > 0 /\ LastEntry.k = "footer"
    /\ Cardinality(Footers) = 1

(* C3: once an Initialize() has failed to open the log file, every later   *)
(* call writes nothing, changes no state and does not open the file again. *)
FailedOpenPermanent ==
    [][ openFailed => (UNCHANGED progVars /\ ~lastCall'.opens) ]_vars

(* C4: a LogSend or LogRecv with a null buffer or a size < 1 writes        *)
(* nothing and leaves the session state unchanged.                         *)
NullOrEmptyIsNoOp ==
    [][ ( /\ nCalls' = nCalls + 1
          /\ lastCall'.op \in {"LogSend", "LogRecv"}
          /\ lastCall'.null \/ lastCall'.size < 1 )
        => UNCHANGED progVars ]_vars

-----------------------------------------------------------------------------
(* Properties of the disassembler (SpecDis)                                *)

LastField == fields[Len(fields)]

(* C5: every index read lies in [0, size). *)
ReadsInBounds == reads \subseteq 0..(size - 1)

(* The scan has ended with a float read from the last four bytes, every    *)
(* byte of the buffer having been read.                                    *)
ReadToLastByte ==
    /\ pc = "done" /\ Len(fields) > 0
    /\ LastField.cand = "float" /\ LastField.off + 4 = size
    /\ reads = 0..(size - 1)

(* C6: the offsets of the field lines increase strictly and each line's    *)
(* [off, off + width), width being the width the line reports, lies within *)
(* [start, size).                                                          *)
FieldRangesInBuffer ==
    \A i \in 1..Len(fields) :
        /\ fields[i].off >= start
        /\ fields[i].off + fields[i].width <= size
        /\ i > 1 => fields[i - 1].off < fields[i].off

RECURSIVE SumLen(_)
SumLen(fs) == IF fs = <<>> THEN 0 ELSE fs[1].len + SumLen(Tail(fs))

(* C7: at most PKT_DBG_MAX_FIELDS field lines; the "+N more bytes" line is *)
(* written exactly when the scan stopped below size, with N = size - pos,  *)
(* so the bytes consumed plus N are size - start.                          *)
FieldCapAndRemainder ==
    /\ Len(fields) <= PKT_DBG_MAX_FIELDS
    /\ (pc = "done" /\ marker # "(empty)") =>
          /\ (more # <<>>) <=> (pos < size)
          /\ more # <<>> => more[1] = size - pos
          /\ SumLen(fields) + (IF more = <<>> THEN 0 ELSE more[1]) = size - start

(* The field cap was hit with bytes left. *)
CapHitWithBytesLeft ==
    /\ pc = "done" /\ Len(fields) = PKT_DBG_MAX_FIELDS
    /\ more # <<>> /\ more[1] > 0

(* A region of n bytes at offset o lies in the buffer, holds only          *)
(* printable and null bytes, at least 3 printable and at least one null.   *)
CanonicalRegion(d, sz, o, n) ==
    /\ o + n <= sz
    /\ \A i \in 0..(n - 1) : IsPrintable(RD(d, o + i)) \/ RD(d, o + i) = 0
    /\ Cardinality({i \in 0..(n - 1) : IsPrintable(RD(d, o + i))}) >= PKT_DBG_MIN_STR_LEN
    /\ \E i \in 0..(n - 1) : RD(d, o + i) = 0

(* C8: when the bytes at the scan offset form such a region of a canonical *)
(* size, the field committed there is one fixed string of that size.       *)
FixedRegionIsOneFixedField ==
    fields # <<>> =>
        \A k \in 1..Len(sizes) :
            CanonicalRegion(data, size, LastField.off, sizes[k])
                => LastField.cand = "fixstr" /\ LastField.width = sizes[k]

(* The length of the maximal run of printable bytes at offset o. *)
PrintableRun(d, sz, o) ==
    CHOOSE k \in 0..(sz - o) :
        /\ o + k = sz \/ ~IsPrintable(RD(d, o + k))
        /\ \A j \in 0..(k - 1) : IsPrintable(RD(d, o + j))

(* C9: the field committed at a scan offset is a variable string iff the   *)
(* maximal printable run there has a length k in 3..64 and is followed by  *)
(* a null or the end of the buffer; the string is then that run and the    *)
(* scan resumes behind the null if there is one.                           *)
VarStringIffRun ==
    fields # <<>> =>
        LET o  == LastField.off
            k  == PrintableRun(data, size, o)
            ok == /\ k >= PKT_DBG_MIN_STR_LEN /\ k <= MaxStrRun
                  /\ o + k = size \/ RD(data, o + k) = 0
        IN  /\ (LastField.cand = "varstr") <=> ok
            /\ LastField.cand = "varstr" =>
                  /\ LastField.str = SubSeq(data, o + 1, o + k)
                  /\ pos = IF o + k < size THEN o + k + 1 ELSE o + k

(* A run of exactly 64 printable bytes was committed as a string. *)
LongestStringCommitted ==
    /\ fields # <<>>
    /\ LastField.cand = "varstr" /\ Len(LastField.str) = MaxStrRun

(* C10: the single-byte fallback is reached with two or more bytes left    *)
(* only when the next two bytes are zero, so a byte field at an offset     *)
(* other than size - 1 has value 0.                                        *)
ByteFallbackOnlyZero ==
    \A i \in 1..Len(fields) :
        (fields[i].cand = "byte" /\ fields[i].off # size - 1)
            => fields[i].val = 0 /\ ReadWORD(data, fields[i].off) = 0

(* The fallback was reached with four or more bytes left that are not all  *)
(* zero: both 4-byte candidates and the 16-bit candidate rejected.         *)
FallbackBehindRejectedDWORD ==
    \E i \in 1..Len(fields) :
        /\ fields[i].cand = "byte" /\ fields[i].off + 4 <= size
        /\ ReadDWORD(data, fields[i].off) # D_Zero

====
